---- MODULE Spec2Model ----
(***************************************************************************)
(* Transfer coordinator of transit.sh: the Redis-backed Store              *)
(* (lib/store.py), the FileTransfer upload and download loops              *)
(* (lib/transfer.py), the HTTP and WebSocket handlers (views/) and the     *)
(* error callbacks (lib/callbacks.py).                                     *)
(*                                                                         *)
(* One Redis command (one await on the backend) is one atomic step.  All   *)
(* handlers work on the same transfer id, so the Store variables are the   *)
(* keys of that id.                                                        *)
(***************************************************************************)
EXTENDS Integers, Sequences, FiniteSets, TLC

Senders == {"A", "B"}
Receivers == {"X", "Y"}

\* Bounds of the explored inputs.
MaxSize == 2
MaxData == 3
MaxChunk == 2
LongSize == 16

\* Program constants.
maxsize == 16
HttpMaxSize == 1073741824
DONE_FLAG == <<0, 255>>
DEAD_FLAG == <<222, 173>>

VARIABLES
  meta,       \* transfer:<uid>:metadata
  queue,      \* transfer:<uid>:queue, index 1 is the head of the Redis list
  marker,     \* transfer:<uid>:client_connected:marker
  interrupt,  \* interrupt:<uid>
  lock,       \* cleanup:<uid>
  receiver_connected,  \* transfer:<uid>:receiver_connected
  subs,       \* senders subscribed to the channel transfer:<uid>:client_connected
  inbox,      \* senders whose subscription holds an unread notification
  snd,        \* per upload handler: request, position and FileTransfer fields
  rcv,        \* per download handler: position and FileTransfer fields
  keyspace    \* keys of the transfers on other uids, each with the uid that wrote it

vars == <<meta, queue, marker, interrupt, lock, receiver_connected,
          subs, inbox, snd, rcv, keyspace>>
storeVars == <<meta, queue, marker, interrupt, lock, receiver_connected,
               subs, inbox, keyspace>>

Min(a, b) == IF a < b THEN a ELSE b

----------------------------------------------------------------------------
(* Values *)

NoKey == [kind |-> "none", by |-> "-", size |-> 0, ttl |-> FALSE]
Challenge(p) == [kind |-> "chal", by |-> p, size |-> 0, ttl |-> FALSE]
MetadataJson(s, n) == [kind |-> "json", by |-> s, size |-> n, ttl |-> TRUE]

NoLock == [held |-> FALSE, by |-> "-"]
LockBy(p) == [held |-> TRUE, by |-> p]

Patterns == {"plain", "done", "dead"}

\* The i-th byte the client of a sender streams.
PayloadByte(pat, i) ==
  IF pat = "done" /\ i <= 2 THEN DONE_FLAG[i]
  ELSE IF pat = "dead" /\ i <= 2 THEN DEAD_FLAG[i]
  ELSE i

Payload(pat, n) == [i \in 1..n |-> PayloadByte(pat, i)]
ChunkAt(pat, p, k) == [i \in 1..k |-> PayloadByte(pat, p + i)]

Text(m) == [t |-> "text", code |-> 0, msg |-> m]
ErrorText(m) == [t |-> "error_text", code |-> 0, msg |-> m]
Close(c, m) == [t |-> "close", code |-> c, msg |-> m]
Http(c, m) == [t |-> "http", code |-> c, msg |-> m]

\* Characters a transfer id may be made of (string.ascii_letters,
\* string.digits and '-'), by representatives, and two path parameters.
UidChars == {"a", "Z", "0", "-"}
GoodUid == <<"a", "Z", "-", "0">>
BadUid == <<"a", ".", "0">>

\* not any(char not in string.ascii_letters + string.digits + '-' ...)
ValidUid(uid) == \A i \in 1..Len(uid) : uid[i] \in UidChars

----------------------------------------------------------------------------
(* Initial state *)

\* An upload handler before its first step.  uid is the path parameter of
\* the request, frame the longest chunk its client streams; pushed records
\* the entries the handler has put on the queue.
SenderInit(proto, size, pat) ==
  [proto |-> proto, size |-> size, pat |-> pat, uid |-> GoodUid,
   frame |-> MaxChunk,
   pc |-> "start", up |-> 0, pos |-> 0, cur |-> <<>>, ckind |-> "none",
   shut |-> FALSE, poll |-> FALSE, listen |-> FALSE, eos |-> "none",
   err |-> "none", out |-> <<>>, flags |-> <<>>, pushed |-> <<>>]

\* A download handler before its first step.  taken records the entries
\* get_from_queue has returned, event how far set_client_connected has got,
\* claimed whether set_receiver_connected returned true, and won whether
\* cleanup_started returned false for this handler.
ReceiverOn(proto) ==
  [proto |-> proto, uid |-> GoodUid,
   pc |-> "start", size |-> 0, down |-> 0, got |-> <<>>, ended |-> "none",
   err |-> "none", status |-> 0, scanned |-> {}, ret |-> -1,
   taken |-> <<>>, event |-> "none", claimed |-> FALSE, won |-> FALSE]

ReceiverInit == ReceiverOn("http")

\* The requests an upload handler can be started with.
Requests ==
  {SenderInit(p, n, pat) :
     p \in {"ws", "http"}, n \in 1..MaxSize, pat \in Patterns}

\* No key of the transfer id exists and no handler has run.  The senders in
\* S take any request; the others are held at a fixed one (they take no
\* step in a specification that leaves them out).
\* No key of the transfer id exists and nobody is subscribed.
InitKeys ==
  /\ meta = NoKey
  /\ queue = <<>>
  /\ marker = FALSE
  /\ interrupt = FALSE
  /\ lock = NoLock
  /\ receiver_connected = FALSE
  /\ subs = {}
  /\ inbox = {}
  /\ keyspace = {}

InitSendersWith(S) ==
  /\ InitKeys
  /\ snd \in [Senders -> Requests]
  /\ \A s \in Senders \ S : snd[s] = SenderInit("ws", 1, "plain")

InitWith(S) ==
  /\ InitSendersWith(S)
  /\ rcv = [r \in Receivers |-> ReceiverInit]

Init == InitWith({"A"})

----------------------------------------------------------------------------
(* Error callbacks, lib/callbacks.py *)

\* send_error_and_close: text frame and close 1011 while the socket is open.
send_error_and_close(s, message) ==
  IF snd[s].eos = "end" THEN <<>>
  ELSE <<ErrorText(message), Close(1011, message)>>

\* raise_http_exception: always raises StreamTerminated("400: <message>"),
\* which leaves the upload handler as an unhandled exception.
raise_http_exception(message) == <<Http(500, message)>>

on_error(s, message) ==
  IF snd[s].proto = "ws" THEN send_error_and_close(s, message)
  ELSE raise_http_exception(message)

\* The handler has ended and on_error was called with message m.
FailWith(s, m) ==
  [snd EXCEPT ![s].pc = "done", ![s].err = m,
              ![s].out = snd[s].out \o on_error(s, m)]

\* The handler has ended normally after collect_upload returned.
UploadComplete(s) ==
  [snd EXCEPT ![s].pc = "done",
              ![s].out = IF snd[s].proto = "http"
                         THEN snd[s].out \o <<Http(200, "Transfer complete.")>>
                         ELSE snd[s].out]

----------------------------------------------------------------------------
(* Checks at the head of the handlers *)

\* Admitted without the size limit of http_upload.
AdmittedAnySize(s) ==
  snd[s].proto = "ws" \/ ValidUid(snd[s].uid)

\* The request passes the checks its handler makes before
\* FileTransfer.create: http_upload checks the uid and the declared size,
\* websocket_upload checks neither.
Admitted(s) ==
  snd[s].proto = "ws"
    \/ (ValidUid(snd[s].uid) /\ snd[s].size <= HttpMaxSize)

\* http_upload raises HTTPException 400 for the uid, 413 for the size.
http_upload_reject(s) ==
  /\ snd[s].pc = "start"
  /\ ~Admitted(s)
  /\ snd' = [snd EXCEPT
               ![s].pc = "done",
               ![s].out = IF ~ValidUid(snd[s].uid)
                          THEN <<Http(400, "Invalid transfer ID. Must only contain alphanumeric characters and hyphens.")>>
                          ELSE <<Http(413, "File too large. 1GiB maximum for HTTP.")>>]
  /\ UNCHANGED <<storeVars, rcv>>

\* http_download raises HTTPException 400 for the uid.
http_download_reject(r) ==
  /\ rcv[r].pc = "start"
  /\ rcv[r].proto = "http"
  /\ ~ValidUid(rcv[r].uid)
  /\ rcv' = [rcv EXCEPT ![r].pc = "done", ![r].status = 400]
  /\ UNCHANGED <<storeVars, snd>>

----------------------------------------------------------------------------
(* Store.set_metadata, via FileTransfer.create *)

\* set_metadata_nx with a plain SET in place of the set-if-absent.
set_metadata_overwrite(s) ==
  /\ snd[s].pc = "start"
  /\ Admitted(s)
  /\ meta' = Challenge(s)
  /\ snd' = [snd EXCEPT ![s].pc = "sm_get"]
  /\ UNCHANGED <<keyspace, receiver_connected, queue, marker, interrupt, lock, subs, inbox, rcv>>

set_metadata_nx(s) ==
  /\ snd[s].pc = "start"
  /\ Admitted(s)
  /\ meta' = IF meta.kind = "none" THEN Challenge(s) ELSE meta
  /\ snd' = [snd EXCEPT ![s].pc = "sm_get"]
  /\ UNCHANGED <<keyspace, receiver_connected, queue, marker, interrupt, lock, subs, inbox, rcv>>

ConflictReply(s) ==
  IF snd[s].proto = "http" THEN Http(409, "Transfer ID is already used.")
  ELSE ErrorText("Transfer ID is already used.")

set_metadata_get(s) ==
  /\ snd[s].pc = "sm_get"
  /\ snd' = IF meta = Challenge(s)
            THEN [snd EXCEPT ![s].pc = "sm_set"]
            ELSE [snd EXCEPT ![s].pc = "done",
                             ![s].out = snd[s].out \o <<ConflictReply(s)>>]
  /\ UNCHANGED <<storeVars, rcv>>

set_metadata_set(s) ==
  /\ snd[s].pc = "sm_set"
  /\ meta' = MetadataJson(s, snd[s].size)
  /\ snd' = [snd EXCEPT ![s].pc = "wait"]
  /\ UNCHANGED <<keyspace, receiver_connected, queue, marker, interrupt, lock, subs, inbox, rcv>>

----------------------------------------------------------------------------
(* Store.wait_for_event, via FileTransfer.wait_for_client_connected *)

\* _listen_for_message: pubsub.subscribe on the channel of the event.
listen_subscribe(s) ==
  /\ snd[s].pc = "wait"
  /\ ~snd[s].listen
  /\ s \notin subs
  /\ subs' = subs \cup {s}
  /\ UNCHANGED <<keyspace, receiver_connected, meta, queue, marker, interrupt, lock, inbox, snd, rcv>>

\* _listen_for_message: a message of type 'message' ends the listener.
listen_message(s) ==
  /\ snd[s].pc = "wait"
  /\ ~snd[s].listen
  /\ s \in inbox
  /\ inbox' = inbox \ {s}
  /\ snd' = [snd EXCEPT ![s].listen = TRUE]
  /\ UNCHANGED <<keyspace, receiver_connected, meta, queue, marker, interrupt, lock, subs, rcv>>

\* _poll_marker: the loop ends once redis.exists(marker) is true.
MarkerExists == marker

poll_marker(s) ==
  /\ snd[s].pc = "wait"
  /\ ~snd[s].poll
  /\ MarkerExists
  /\ snd' = [snd EXCEPT ![s].poll = TRUE]
  /\ UNCHANGED <<storeVars, rcv>>

\* The task group of wait_for_event is left when every started task has
\* returned: nothing cancels the sibling of a task that returns.
TaskGroupDone(poll, listen) == poll /\ listen

\* A step of the waiter is at hand (each takes at most the 1 s poll period).
WaitCanProgress(s) ==
  \/ TaskGroupDone(snd[s].poll, snd[s].listen)
  \/ ~snd[s].poll /\ MarkerExists
  \/ ~snd[s].listen /\ (s \notin subs \/ s \in inbox)

\* finally: pubsub.unsubscribe and pubsub.aclose.
Unsubscribed(s) ==
  /\ subs' = subs \ {s}
  /\ inbox' = inbox \ {s}

GoReply(s) == IF snd[s].proto = "ws" THEN <<Text("Go for file chunks")>> ELSE <<>>

\* wait_for_event_return without the wait: the handler goes on at once.
wait_for_event_return_unawaited(s) ==
  /\ snd[s].pc = "wait"
  /\ Unsubscribed(s)
  /\ snd' = [snd EXCEPT ![s].pc = "up_read", ![s].up = 0,
                        ![s].out = snd[s].out \o GoReply(s)]
  /\ UNCHANGED <<keyspace, receiver_connected, meta, queue, marker, interrupt, lock, rcv>>

wait_for_event_return(s) ==
  /\ snd[s].pc = "wait"
  /\ TaskGroupDone(snd[s].poll, snd[s].listen)
  /\ Unsubscribed(s)
  /\ snd' = [snd EXCEPT ![s].pc = "up_read", ![s].up = 0,
                        ![s].out = snd[s].out \o GoReply(s)]
  /\ UNCHANGED <<keyspace, receiver_connected, meta, queue, marker, interrupt, lock, rcv>>

TimeoutReply(s) ==
  IF snd[s].proto = "http" THEN Http(408, "Client did not connect in time.")
  ELSE ErrorText("Receiver did not connect in time.")

\* wait_for_event_timeout with the TimeoutError swallowed: the handler goes
\* on to collect_upload.
wait_for_event_timeout_swallowed(s) ==
  /\ snd[s].pc = "wait"
  /\ ~WaitCanProgress(s)
  /\ Unsubscribed(s)
  /\ snd' = [snd EXCEPT ![s].pc = "up_read", ![s].up = 0,
                        ![s].out = snd[s].out \o GoReply(s)]
  /\ UNCHANGED <<keyspace, receiver_connected, meta, queue, marker, interrupt, lock, rcv>>

\* wait_for_event_timeout without the finally clause: the subscription
\* stays open.
wait_for_event_timeout_subscribed(s) ==
  /\ snd[s].pc = "wait"
  /\ ~WaitCanProgress(s)
  /\ snd' = [snd EXCEPT ![s].pc = "done",
                        ![s].out = snd[s].out \o <<TimeoutReply(s)>>]
  /\ UNCHANGED storeVars
  /\ UNCHANGED rcv

\* anyio.fail_after(timeout) expires: the 300 s pass only while the waiter
\* has no step at hand.
wait_for_event_timeout(s) ==
  /\ snd[s].pc = "wait"
  /\ ~WaitCanProgress(s)
  /\ Unsubscribed(s)
  /\ snd' = [snd EXCEPT ![s].pc = "done",
                        ![s].out = snd[s].out \o <<TimeoutReply(s)>>]
  /\ UNCHANGED <<keyspace, receiver_connected, meta, queue, marker, interrupt, lock, rcv>>

----------------------------------------------------------------------------
(* FileTransfer.collect_upload *)

\* Most bytes the client can stream: an HTTP body is Content-Length long.
StreamLimit(s) ==
  IF snd[s].proto = "http" \/ snd[s].size > MaxData THEN snd[s].size
  ELSE MaxData

\* async for chunk in stream: a non-empty chunk.
stream_chunk(s) ==
  /\ snd[s].pc = "up_read"
  /\ \E k \in 1..snd[s].frame :
       /\ snd[s].pos + k <= StreamLimit(s)
       /\ snd' = [snd EXCEPT ![s].pc = "up_check",
                             ![s].cur = ChunkAt(snd[s].pat, snd[s].pos, k),
                             ![s].pos = snd[s].pos + k]
  /\ UNCHANGED <<storeVars, rcv>>

\* async for chunk in stream: a zero-length chunk (break).  request.stream()
\* yields it after the whole body, a WebSocket client may send it any time.
stream_empty(s) ==
  /\ snd[s].pc = "up_read"
  /\ snd[s].proto = "http" => snd[s].pos = snd[s].size
  /\ snd' = [snd EXCEPT ![s].pc = "up_end", ![s].eos = "empty"]
  /\ UNCHANGED <<storeVars, rcv>>

\* async for chunk in stream: the iteration ends (iter_bytes returns when
\* the WebSocket client disconnects).
stream_end(s) ==
  /\ snd[s].pc = "up_read"
  /\ snd[s].proto = "ws"
  /\ snd' = [snd EXCEPT ![s].pc = "up_end", ![s].eos = "end"]
  /\ UNCHANGED <<storeVars, rcv>>

\* async for chunk in stream: request.stream() raises ClientDisconnect;
\* the handler of (ClientDisconnect, WebSocketDisconnect) pushes DEAD.
stream_disconnect(s) ==
  /\ snd[s].pc = "up_read"
  /\ snd[s].proto = "http"
  /\ snd[s].pos < snd[s].size
  /\ snd' = [snd EXCEPT ![s].pc = "put_llen", ![s].eos = "disconnect",
                        ![s].cur = DEAD_FLAG, ![s].ckind = "dead",
                        ![s].shut = FALSE]
  /\ UNCHANGED <<storeVars, rcv>>

\* InterruptedError raised as a propagating error.
InterruptedErrorPropagating ==
  [msg |-> "Transfer was interrupted by the receiver.",
   propagate |-> TRUE, shutdown |-> TRUE]

\* LessDataError raised with shutdown set.
LessDataErrorShutdown ==
  [msg |-> "Received less data than expected.",
   propagate |-> TRUE, shutdown |-> TRUE]

\* The two FileTransferError raised by collect_upload.
InterruptedError ==
  [msg |-> "Transfer was interrupted by the receiver.",
   propagate |-> FALSE, shutdown |-> TRUE]
LessDataError ==
  [msg |-> "Received less data than expected.",
   propagate |-> TRUE, shutdown |-> FALSE]

\* except FileTransferError: DEAD if e.propagate, then on_error if e.shutdown.
HandleUploadError(s, e) ==
  IF e.propagate
  THEN [snd EXCEPT ![s].pc = "put_llen", ![s].cur = DEAD_FLAG,
                   ![s].ckind = "dead", ![s].shut = e.shutdown]
  ELSE IF e.shutdown THEN FailWith(s, e.msg)
  ELSE UploadComplete(s)

is_interrupted == interrupt

\* if await self.is_interrupted(): raise FileTransferError(...)
check_interrupted(s) ==
  /\ snd[s].pc = "up_check"
  /\ snd' = IF is_interrupted
            THEN HandleUploadError(s, InterruptedError)
            ELSE [snd EXCEPT ![s].pc = "put_llen", ![s].ckind = "chunk"]
  /\ UNCHANGED <<storeVars, rcv>>

\* upload_end without the comparison of the byte counts.
upload_end_always_done(s) ==
  /\ snd[s].pc = "up_end"
  /\ snd' = [snd EXCEPT ![s].pc = "put_llen", ![s].cur = DONE_FLAG,
                        ![s].ckind = "done"]
  /\ UNCHANGED <<storeVars, rcv>>

\* After the loop: less data than declared is an error, otherwise DONE.
upload_end(s) ==
  /\ snd[s].pc = "up_end"
  /\ snd' = IF snd[s].up < snd[s].size
            THEN HandleUploadError(s, LessDataError)
            ELSE [snd EXCEPT ![s].pc = "put_llen", ![s].cur = DONE_FLAG,
                             ![s].ckind = "done"]
  /\ UNCHANGED <<storeVars, rcv>>

\* Store.put_in_queue, first half: _wait_for_queue_space under fail_after.
\* With room the push follows; a queue that stays full raises TimeoutError,
\* which ends collect_upload through on_error, or, raised while the DEAD
\* flag of an error handler is pushed, leaves the handler as an exception.
put_in_queue_wait(s) ==
  /\ snd[s].pc = "put_llen"
  /\ snd' = IF Len(queue) < maxsize
            THEN [snd EXCEPT ![s].pc = "put_lpush"]
            ELSE IF snd[s].ckind = "dead"
            THEN [snd EXCEPT ![s].pc = "done", ![s].err = "none",
                             ![s].out = snd[s].out \o
                                 <<IF snd[s].proto = "http"
                                   THEN Http(500, "TimeoutError")
                                   ELSE Close(1011, "TimeoutError")>>]
            ELSE FailWith(s, "Timeout during upload.")
  /\ UNCHANGED <<storeVars, rcv>>

\* Store.put_in_queue, second half: redis.lpush puts the entry at the head
\* of the list; the coroutine resumes in a later step.
put_in_queue_lpush(s) ==
  /\ snd[s].pc = "put_lpush"
  /\ queue' = <<snd[s].cur>> \o queue
  /\ snd' = [snd EXCEPT ![s].pc = "put_ret",
                        ![s].pushed = Append(snd[s].pushed, snd[s].cur),
                        ![s].flags = IF snd[s].ckind = "chunk" THEN snd[s].flags
                                     ELSE Append(snd[s].flags, snd[s].cur)]
  /\ UNCHANGED <<keyspace, receiver_connected, meta, marker, interrupt, lock, subs, inbox, rcv>>

\* put_in_queue_return with the DEAD flag pushed after a DONE flag.
put_in_queue_return_dead_after_done(s) ==
  /\ snd[s].pc = "put_ret"
  /\ snd' = CASE snd[s].ckind = "chunk" ->
                   [snd EXCEPT ![s].pc = "up_read",
                               ![s].up = snd[s].up + Len(snd[s].cur)]
              [] snd[s].ckind = "done" ->
                   [snd EXCEPT ![s].pc = "put_llen", ![s].cur = DEAD_FLAG,
                               ![s].ckind = "dead", ![s].shut = FALSE]
              [] OTHER ->
                   IF snd[s].shut
                   THEN FailWith(s, LessDataError.msg)
                   ELSE UploadComplete(s)
  /\ UNCHANGED <<storeVars, rcv>>

\* What follows the return of put_in_queue: the counter of the loop
\* (self.bytes_uploaded += len(chunk)) after a chunk, the end of
\* collect_upload after a sentinel.
put_in_queue_return(s) ==
  /\ snd[s].pc = "put_ret"
  /\ snd' = CASE snd[s].ckind = "chunk" ->
                   [snd EXCEPT ![s].pc = "up_read",
                               ![s].up = snd[s].up + Len(snd[s].cur)]
              [] snd[s].ckind = "done" -> UploadComplete(s)
              [] OTHER ->
                   IF snd[s].shut
                   THEN FailWith(s, LessDataError.msg)
                   ELSE UploadComplete(s)
  /\ UNCHANGED <<storeVars, rcv>>

SenderStep(s) ==
  \/ set_metadata_nx(s)
  \/ set_metadata_get(s)
  \/ set_metadata_set(s)
  \/ listen_subscribe(s)
  \/ listen_message(s)
  \/ poll_marker(s)
  \/ wait_for_event_return(s)
  \/ wait_for_event_timeout(s)
  \/ stream_chunk(s)
  \/ stream_empty(s)
  \/ stream_end(s)
  \/ stream_disconnect(s)
  \/ check_interrupted(s)
  \/ upload_end(s)
  \/ put_in_queue_wait(s)
  \/ put_in_queue_lpush(s)
  \/ put_in_queue_return(s)

----------------------------------------------------------------------------
(* http_download, views/http.py *)

\* What the user-agent and the query of a GET select: the preview page for
\* a link prefetcher, the download page for a browser without ?download,
\* the download itself otherwise.
Views == {"preview", "page", "download"}

\* The reply of http_download once FileTransfer.get has returned.
Served(r, view) ==
  IF view = "download"
  THEN [rcv EXCEPT ![r].pc = "ev_set", ![r].size = meta.size]
  ELSE [rcv EXCEPT ![r].pc = "done", ![r].size = meta.size,
                   ![r].status = 200, ![r].ended = view]

\* http_download_get with set_client_connected started ahead of the
\* user-agent branches.
http_download_get_eager(r) ==
  /\ rcv[r].pc = "start"
  /\ rcv[r].proto = "http"
  /\ ValidUid(rcv[r].uid)
  /\ \E view \in Views :
       /\ rcv' = CASE meta.kind = "none" ->
                        [rcv EXCEPT ![r].pc = "done", ![r].status = 404]
                   [] meta.kind = "chal" ->
                        [rcv EXCEPT ![r].pc = "done", ![r].status = 400]
                   [] OTHER -> Served(r, view)
       /\ marker' = (marker \/ (meta.kind = "json" /\ view # "download"))
  /\ UNCHANGED <<keyspace, receiver_connected, meta, queue, interrupt, lock, subs, inbox, snd>>

\* FileTransfer.get: Store.get_metadata, then FileMetadata.from_json.  No
\* key is 404; a value that is not JSON (the challenge of a set_metadata in
\* progress) raises ValueError, answered 400.  Then the user-agent branches.
http_download_get(r) ==
  /\ rcv[r].pc = "start"
  /\ rcv[r].proto = "http"
  /\ ValidUid(rcv[r].uid)
  /\ \E view \in Views :
       rcv' = CASE meta.kind = "none" ->
                     [rcv EXCEPT ![r].pc = "done", ![r].status = 404]
                [] meta.kind = "chal" ->
                     [rcv EXCEPT ![r].pc = "done", ![r].status = 400]
                [] OTHER -> Served(r, view)
  /\ UNCHANGED storeVars
  /\ UNCHANGED snd

\* set_event_marker with the response started before set_event has returned.
set_event_marker_unawaited(r) ==
  /\ rcv[r].pc = "ev_set"
  /\ marker' = TRUE
  /\ rcv' = [rcv EXCEPT ![r].pc = "dl_take", ![r].status = 200,
                        ![r].event = "marker"]
  /\ UNCHANGED <<keyspace, receiver_connected, meta, queue, interrupt, lock, subs, inbox, snd>>

\* Store.set_event: redis.set(marker, '1', ex=300).
set_event_marker(r) ==
  /\ rcv[r].pc = "ev_set"
  /\ marker' = TRUE
  /\ rcv' = [rcv EXCEPT ![r].pc = "ev_pub", ![r].event = "marker"]
  /\ UNCHANGED <<keyspace, receiver_connected, meta, queue, interrupt, lock, subs, inbox, snd>>

\* Store.set_event: redis.publish(channel, '1'); the StreamingResponse is
\* returned and supply_download starts with bytes_downloaded = 0.
set_event_publish(r) ==
  /\ rcv[r].pc = "ev_pub"
  /\ inbox' = inbox \cup subs
  /\ rcv' = [rcv EXCEPT ![r].pc = "dl_take", ![r].status = 200, ![r].down = 0,
                        ![r].event = "published"]
  /\ UNCHANGED <<keyspace, receiver_connected, meta, queue, marker, interrupt, lock, subs, snd>>

----------------------------------------------------------------------------
(* websocket_download, views/websockets.py *)

\* FileTransfer.get: no key is answered 'File not found'; a value that is
\* not JSON raises ValueError, which the handler does not catch.
ws_download_get(r) ==
  /\ rcv[r].pc = "start"
  /\ rcv[r].proto = "ws"
  /\ rcv' = CASE meta.kind = "none" ->
                   [rcv EXCEPT ![r].pc = "done", ![r].status = 404]
              [] meta.kind = "chal" ->
                   [rcv EXCEPT ![r].pc = "done", ![r].status = 500]
              [] OTHER ->
                   [rcv EXCEPT ![r].pc = "ws_is_rc", ![r].size = meta.size]
  /\ UNCHANGED <<storeVars, snd>>

\* if await transfer.is_receiver_connected(): error text and return;
\* otherwise the file info is sent.
ws_is_receiver_connected(r) ==
  /\ rcv[r].pc = "ws_is_rc"
  /\ rcv' = IF receiver_connected
            THEN [rcv EXCEPT ![r].pc = "done", ![r].status = 409]
            ELSE [rcv EXCEPT ![r].pc = "ws_go"]
  /\ UNCHANGED <<storeVars, snd>>

\* The go-ahead loop: the client sends 'Go for file chunks', or disconnects.
ws_go_ahead(r) ==
  /\ rcv[r].pc = "ws_go"
  /\ \E go \in BOOLEAN :
       rcv' = IF go THEN [rcv EXCEPT ![r].pc = "ws_set_rc"]
              ELSE [rcv EXCEPT ![r].pc = "done", ![r].ended = "cancelled"]
  /\ UNCHANGED <<storeVars, snd>>

\* ws_set_receiver_connected with the result of the call ignored.
ws_set_receiver_connected_unchecked(r) ==
  /\ rcv[r].pc = "ws_set_rc"
  /\ receiver_connected' = TRUE
  /\ rcv' = [rcv EXCEPT ![r].pc = "ev_set", ![r].claimed = TRUE]
  /\ UNCHANGED <<keyspace, meta, queue, marker, interrupt, lock, subs, inbox, snd>>

\* Store.set_receiver_connected: redis.set(key, '1', ex=300, nx=True); the
\* handler answers with an error text when the key was already there.
ws_set_receiver_connected(r) ==
  /\ rcv[r].pc = "ws_set_rc"
  /\ receiver_connected' = TRUE
  /\ rcv' = IF receiver_connected
            THEN [rcv EXCEPT ![r].pc = "done", ![r].status = 409]
            ELSE [rcv EXCEPT ![r].pc = "ev_set", ![r].claimed = TRUE]
  /\ UNCHANGED <<keyspace, meta, queue, marker, interrupt, lock, subs, inbox, snd>>

WsReceiverStep(r) ==
  \/ ws_download_get(r)
  \/ ws_is_receiver_connected(r)
  \/ ws_go_ahead(r)
  \/ ws_set_receiver_connected(r)

----------------------------------------------------------------------------
(* FileTransfer.supply_download *)

IsDead(chunk) == chunk = DEAD_FLAG
IsDone(chunk) == chunk = DONE_FLAG

\* The generator has returned.  On HTTP the body ends and the background
\* task of the response, finalize_download, runs.  On the WebSocket the
\* handler returns; the task it added to BackgroundTasks belongs to no
\* response and is not run.
StreamEnds(r, how) ==
  [rcv EXCEPT ![r].pc = IF rcv[r].proto = "http" THEN "fin_check" ELSE "done",
              ![r].ended = how]

\* What supply_download does with an entry it has taken.  DEAD, and DONE
\* before file.size bytes, raise FileTransferError, which supply_download
\* catches and logs; DONE otherwise breaks; anything else is counted and
\* yielded.
Supplied(r, chunk) ==
  LET next == CASE IsDead(chunk) -> StreamEnds(r, "dead")
                [] IsDone(chunk) /\ rcv[r].down < rcv[r].size ->
                     StreamEnds(r, "less")
                [] IsDone(chunk) -> StreamEnds(r, "done")
                [] OTHER ->
                     [rcv EXCEPT ![r].down = rcv[r].down + Len(chunk),
                                 ![r].got = rcv[r].got \o chunk]
  IN [next EXCEPT ![r].taken = Append(rcv[r].taken, chunk)]

\* get_from_queue taking from the end the sender pushes to.
get_from_queue_lpop(r) ==
  /\ rcv[r].pc = "dl_take"
  /\ queue # <<>>
  /\ queue' = Tail(queue)
  /\ rcv' = Supplied(r, Head(queue))
  /\ UNCHANGED <<keyspace, receiver_connected, meta, marker, interrupt, lock, subs, inbox, snd>>

\* get_from_queue reading the tail of the list without removing it.
get_from_queue_peek(r) ==
  /\ rcv[r].pc = "dl_take"
  /\ queue # <<>>
  /\ rcv' = Supplied(r, queue[Len(queue)])
  /\ UNCHANGED storeVars
  /\ UNCHANGED snd

\* Store.get_from_queue returns an entry: brpop takes the tail of the list.
get_from_queue(r) ==
  /\ rcv[r].pc = "dl_take"
  /\ queue # <<>>
  /\ queue' = SubSeq(queue, 1, Len(queue) - 1)
  /\ rcv' = Supplied(r, queue[Len(queue)])
  /\ UNCHANGED <<keyspace, receiver_connected, meta, marker, interrupt, lock, subs, inbox, snd>>

\* Store.get_from_queue: brpop returns nothing within 20 s, TimeoutError.
\* supply_download calls on_error, and raise_http_exception raises
\* StreamTerminated out of the body iterator: the response is torn down and
\* its background task does not run.
get_from_queue_timeout(r) ==
  /\ rcv[r].pc = "dl_take"
  /\ queue = <<>>
  /\ rcv' = [rcv EXCEPT ![r].pc = "done", ![r].ended = "terminated",
                        ![r].err = "Timeout waiting for data"]
  /\ UNCHANGED storeVars
  /\ UNCHANGED snd

\* The client closes the connection while the body is streamed: the
\* generator is cancelled and the background task runs.
receiver_disconnect(r) ==
  /\ rcv[r].pc = "dl_take"
  /\ rcv' = StreamEnds(r, "cancelled")
  /\ UNCHANGED storeVars
  /\ UNCHANGED snd

----------------------------------------------------------------------------
(* FileTransfer.finalize_download, Store.set_interrupted, Store.cleanup *)

\* finalize_download without the comparison of the byte counts.
finalize_download_any_size(r) ==
  /\ rcv[r].pc = "fin_check"
  /\ rcv' = IF ~is_interrupted
            THEN [rcv EXCEPT ![r].pc = "int_set"]
            ELSE [rcv EXCEPT ![r].pc = "cl_setnx"]
  /\ UNCHANGED storeVars
  /\ UNCHANGED snd

\* if self.bytes_downloaded < self.file.size and not await self.is_interrupted()
finalize_download(r) ==
  /\ rcv[r].pc = "fin_check"
  /\ rcv' = IF rcv[r].down < rcv[r].size /\ ~is_interrupted
            THEN [rcv EXCEPT ![r].pc = "int_set"]
            ELSE [rcv EXCEPT ![r].pc = "cl_setnx"]
  /\ UNCHANGED storeVars
  /\ UNCHANGED snd

\* redis.set('interrupt:<uid>', '1', ex=300, nx=True)
set_interrupted_flag(r) ==
  /\ rcv[r].pc = "int_set"
  /\ interrupt' = TRUE
  /\ rcv' = [rcv EXCEPT ![r].pc = "int_ltrim"]
  /\ UNCHANGED <<keyspace, receiver_connected, meta, queue, marker, lock, subs, inbox, snd>>

\* set_interrupted_ltrim with the list left as it is.
set_interrupted_no_ltrim(r) ==
  /\ rcv[r].pc = "int_ltrim"
  /\ rcv' = [rcv EXCEPT ![r].pc = "cl_setnx"]
  /\ UNCHANGED storeVars
  /\ UNCHANGED snd

\* redis.ltrim(queue, 0, 0): only the head of the list stays.
set_interrupted_ltrim(r) ==
  /\ rcv[r].pc = "int_ltrim"
  /\ queue' = SubSeq(queue, 1, Min(1, Len(queue)))
  /\ rcv' = [rcv EXCEPT ![r].pc = "cl_setnx"]
  /\ UNCHANGED <<keyspace, receiver_connected, meta, marker, interrupt, lock, subs, inbox, snd>>

\* cleanup_started_nx with a plain SET in place of the set-if-absent.
cleanup_started_overwrite(r) ==
  /\ rcv[r].pc = "cl_setnx"
  /\ lock' = LockBy(r)
  /\ rcv' = [rcv EXCEPT ![r].pc = "cl_get"]
  /\ UNCHANGED <<keyspace, receiver_connected, meta, queue, marker, interrupt, subs, inbox, snd>>

\* cleanup_started: redis.set('cleanup:<uid>', challenge, ex=60, nx=True)
cleanup_started_nx(r) ==
  /\ rcv[r].pc = "cl_setnx"
  /\ lock' = IF lock.held THEN lock ELSE LockBy(r)
  /\ rcv' = [rcv EXCEPT ![r].pc = "cl_get"]
  /\ UNCHANGED <<keyspace, receiver_connected, meta, queue, marker, interrupt, subs, inbox, snd>>

\* cleanup_started: redis.get('cleanup:<uid>') == challenge; cleanup returns
\* 0 when it does not.
cleanup_started_get(r) ==
  /\ rcv[r].pc = "cl_get"
  /\ rcv' = IF lock = LockBy(r)
            THEN [rcv EXCEPT ![r].pc = "cl_scan", ![r].won = TRUE]
            ELSE [rcv EXCEPT ![r].pc = "done", ![r].ret = 0]
  /\ UNCHANGED storeVars
  /\ UNCHANGED snd

\* The keys that match transfer:<uid>:* and exist.
TransferKeys ==
  (IF meta.kind # "none" THEN {"metadata"} ELSE {})
    \cup (IF queue # <<>> THEN {"queue"} ELSE {})
    \cup (IF marker THEN {"client_connected:marker"} ELSE {})
    \cup (IF receiver_connected THEN {"receiver_connected"} ELSE {})

\* The keys that exist with no expiry.  The marker, receiver_connected, the
\* interrupt flag and the cleanup lock are written with ex=; the challenge
\* of set_metadata is written with nx=True alone, and the list is created
\* by lpush, with no expire call anywhere.
KeysWithoutExpiry ==
  (IF meta.kind # "none" /\ ~meta.ttl THEN {"metadata"} ELSE {})
    \cup (IF queue # <<>> THEN {"queue"} ELSE {})

\* cleanup: the redis.scan loop.
cleanup_scan(r) ==
  /\ rcv[r].pc = "cl_scan"
  /\ rcv' = IF TransferKeys = {}
            THEN [rcv EXCEPT ![r].pc = "done", ![r].ret = 0]
            ELSE [rcv EXCEPT ![r].pc = "cl_del", ![r].scanned = TransferKeys]
  /\ UNCHANGED storeVars
  /\ UNCHANGED snd

\* cleanup_delete with the metadata key left out of the keys to delete.
cleanup_delete_keep_metadata(r) ==
  /\ rcv[r].pc = "cl_del"
  /\ queue' = IF "queue" \in rcv[r].scanned THEN <<>> ELSE queue
  /\ marker' = IF "client_connected:marker" \in rcv[r].scanned THEN FALSE ELSE marker
  /\ receiver_connected' = IF "receiver_connected" \in rcv[r].scanned
                           THEN FALSE ELSE receiver_connected
  /\ rcv' = [rcv EXCEPT ![r].pc = "done", ![r].scanned = {},
                        ![r].ret = Cardinality(rcv[r].scanned \cap TransferKeys)]
  /\ UNCHANGED <<keyspace, meta, interrupt, lock, subs, inbox, snd>>

\* cleanup: redis.delete(*keys_to_delete)
cleanup_delete(r) ==
  /\ rcv[r].pc = "cl_del"
  /\ meta' = IF "metadata" \in rcv[r].scanned THEN NoKey ELSE meta
  /\ queue' = IF "queue" \in rcv[r].scanned THEN <<>> ELSE queue
  /\ marker' = IF "client_connected:marker" \in rcv[r].scanned THEN FALSE ELSE marker
  /\ receiver_connected' = IF "receiver_connected" \in rcv[r].scanned
                           THEN FALSE ELSE receiver_connected
  /\ rcv' = [rcv EXCEPT ![r].pc = "done", ![r].scanned = {},
                        ![r].ret = Cardinality(rcv[r].scanned \cap TransferKeys)]
  /\ UNCHANGED <<keyspace, interrupt, lock, subs, inbox, snd>>

ReceiverStep(r) ==
  \/ http_download_get(r)
  \/ set_event_marker(r)
  \/ set_event_publish(r)
  \/ get_from_queue(r)
  \/ get_from_queue_timeout(r)
  \/ receiver_disconnect(r)
  \/ finalize_download(r)
  \/ set_interrupted_flag(r)
  \/ set_interrupted_ltrim(r)
  \/ cleanup_started_nx(r)
  \/ cleanup_started_get(r)
  \/ cleanup_scan(r)
  \/ cleanup_delete(r)

----------------------------------------------------------------------------
(* Expiry of the keys written with ex= *)

expire_metadata ==
  /\ meta.ttl
  /\ meta' = NoKey
  /\ UNCHANGED <<keyspace, receiver_connected, queue, marker, interrupt, lock, subs, inbox, snd, rcv>>

expire_marker ==
  /\ marker
  /\ marker' = FALSE
  /\ UNCHANGED <<keyspace, receiver_connected, meta, queue, interrupt, lock, subs, inbox, snd, rcv>>

expire_interrupt ==
  /\ interrupt
  /\ interrupt' = FALSE
  /\ UNCHANGED <<keyspace, receiver_connected, meta, queue, marker, lock, subs, inbox, snd, rcv>>

expire_receiver_connected ==
  /\ receiver_connected
  /\ receiver_connected' = FALSE
  /\ UNCHANGED <<keyspace, meta, queue, marker, interrupt, lock, subs, inbox, snd, rcv>>

expire_cleanup_lock ==
  /\ lock.held
  /\ lock' = NoLock
  /\ UNCHANGED <<keyspace, receiver_connected, meta, queue, marker, interrupt, subs, inbox, snd, rcv>>

Expire ==
  \/ expire_metadata
  \/ expire_marker
  \/ expire_interrupt
  \/ expire_cleanup_lock

----------------------------------------------------------------------------
(* Keys of several transfers: Store.key, FileTransfer._format_uid and the
   pattern of Store.cleanup.  A key is the sequence of its parts: the
   characters of the uid, ":" and the fixed words. *)

Whitespace == {" "}
NonAscii == {"U+00E9"}

RECURSIVE StripLeft(_)
StripLeft(uid) ==
  IF uid # <<>> /\ Head(uid) \in Whitespace THEN StripLeft(Tail(uid)) ELSE uid

RECURSIVE StripRight(_)
StripRight(uid) ==
  IF uid # <<>> /\ uid[Len(uid)] \in Whitespace
  THEN StripRight(SubSeq(uid, 1, Len(uid) - 1)) ELSE uid

IsAscii(c) == c \notin NonAscii

\* str(uid).strip().encode('ascii', 'ignore').decode()
_format_uid(uid) == SelectSeq(StripRight(StripLeft(uid)), IsAscii)

\* f'transfer:{self.transfer_id}:{name}'
key(transfer_id, name) == <<"transfer", ":">> \o transfer_id \o <<":">> \o name

KeyNames == {<<"metadata">>, <<"queue">>, <<"client_connected", ":", "marker">>}

\* redis.scan(cursor, match=pattern): "*" stands for any run of characters.
RECURSIVE Matches(_, _)
Matches(pattern, k) ==
  IF pattern = <<>> THEN k = <<>>
  ELSE IF Head(pattern) = "*"
  THEN Matches(Tail(pattern), k) \/ (k # <<>> /\ Matches(pattern, Tail(k)))
  ELSE k # <<>> /\ Head(k) = Head(pattern) /\ Matches(Tail(pattern), Tail(k))

\* The uids of the requests: two that pass the check of the HTTP handlers,
\* and three that only websocket_upload, which has no check, lets through.
IngressUids ==
  {<<"a">>, <<"Z">>, <<"a", "U+00E9">>, <<" ", "a">>, <<"a", ":", "Z">>}

\* A request with this uid gets as far as FileTransfer.create on one of the
\* upload endpoints: http_upload checks the uid, websocket_upload does not.
AcceptedUpload(uid) ==
  \E proto \in {"http", "ws"} : proto = "ws" \/ ValidUid(uid)

Entry(k, uid) == [key |-> k, owner |-> uid]
Exists(k) == \E e \in keyspace : e.key = k
Owns(uid, name) == Entry(key(_format_uid(uid), name), uid) \in keyspace

\* FileTransfer.create on uid: Store.set_metadata writes the metadata key
\* unless it exists.
ks_set_metadata(uid) ==
  /\ AcceptedUpload(uid)
  /\ ~Exists(key(_format_uid(uid), <<"metadata">>))
  /\ keyspace' = keyspace \cup {Entry(key(_format_uid(uid), <<"metadata">>), uid)}
  /\ UNCHANGED <<meta, queue, marker, interrupt, lock, receiver_connected,
                 subs, inbox, snd, rcv>>

\* A receiver of the transfer sets the event, its sender pushes an entry:
\* the marker and the list are created.
ks_write(uid, name) ==
  /\ Owns(uid, <<"metadata">>)
  /\ name \in KeyNames \ {<<"metadata">>}
  /\ ~Exists(key(_format_uid(uid), name))
  /\ keyspace' = keyspace \cup {Entry(key(_format_uid(uid), name), uid)}
  /\ UNCHANGED <<meta, queue, marker, interrupt, lock, receiver_connected,
                 subs, inbox, snd, rcv>>

\* Store.cleanup of the transfer on uid, from the finalize_download of an
\* http_download, which has checked the uid: every key that matches
\* key('*') is deleted.
ks_cleanup(uid) ==
  /\ ValidUid(uid)
  /\ Owns(uid, <<"metadata">>)
  /\ keyspace' = {e \in keyspace : ~Matches(key(_format_uid(uid), <<"*">>), e.key)}
  /\ UNCHANGED <<meta, queue, marker, interrupt, lock, receiver_connected,
                 subs, inbox, snd, rcv>>

----------------------------------------------------------------------------
(* Specifications *)

\* One sender and one receiver on the transfer id.
Next ==
  \/ SenderStep("A")
  \/ ReceiverStep("X")
  \/ Expire

Spec == Init /\ [][Next]_vars


\* Requests that stream a plain payload.
PlainRequests ==
  {SenderInit(p, n, "plain") : p \in {"ws", "http"}, n \in 1..MaxSize}

\* Two senders, one on each upload endpoint, and one receiver; the metadata
\* key can expire.
NextSenders ==
  \/ \E s \in Senders : SenderStep(s)
  \/ ReceiverStep("X")
  \/ expire_metadata

InitSenders ==
  /\ InitWith(Senders)
  /\ snd["A"] = SenderInit("ws", 1, "plain")
  /\ snd["B"] = SenderInit("http", 1, "plain")

SpecSenders == InitSenders /\ [][NextSenders]_vars

\* One sender and two receivers, within the lifetime of the keys.
NextReceivers ==
  \/ SenderStep("A")
  \/ \E r \in Receivers : ReceiverStep(r)

InitReceivers == Init /\ snd["A"] \in PlainRequests

SpecReceivers == InitReceivers /\ [][NextReceivers]_vars

\* One sender, a receiver on GET /<uid> and a receiver on /receive/<uid>,
\* within the lifetime of the keys.
NextDownload ==
  \/ SenderStep("A")
  \/ \E r \in Receivers : ReceiverStep(r)
  \/ WsReceiverStep("Y")

InitDownload ==
  /\ InitSendersWith({"A"})
  /\ snd["A"] \in PlainRequests
  /\ rcv = [r \in Receivers |-> IF r = "Y" THEN ReceiverOn("ws") ELSE ReceiverInit]

SpecDownload == InitDownload /\ [][NextDownload]_vars

\* Two concurrent FileTransfer.create on the transfer id.
NextCreate ==
  \E s \in Senders :
    \/ set_metadata_nx(s)
    \/ set_metadata_get(s)
    \/ set_metadata_set(s)

SpecCreate == InitWith(Senders) /\ [][NextCreate]_vars

\* A long WebSocket upload in one-byte frames next to a short HTTP upload,
\* with a receiver that has connected and reads nothing yet; the metadata
\* key can expire.
NextQueue ==
  \/ \E s \in Senders : SenderStep(s)
  \/ http_download_get("X")
  \/ set_event_marker("X")
  \/ set_event_publish("X")
  \/ expire_metadata

InitQueue ==
  /\ InitKeys
  /\ rcv = [r \in Receivers |-> ReceiverInit]
  /\ snd = [s \in Senders |->
              IF s = "A"
              THEN [SenderInit("ws", LongSize, "plain") EXCEPT !.frame = 1]
              ELSE SenderInit("http", 1, "plain")]

SpecQueue == InitQueue /\ [][NextQueue]_vars

\* Two receivers on the WebSocket endpoint and one sender, within the
\* lifetime of the keys.
NextWsReceive ==
  \/ SenderStep("A")
  \/ \E r \in Receivers :
       \/ WsReceiverStep(r)
       \/ set_event_marker(r)
       \/ set_event_publish(r)
       \/ get_from_queue(r)
       \/ get_from_queue_timeout(r)
       \/ receiver_disconnect(r)

InitWsReceive ==
  /\ InitSendersWith({"A"})
  /\ snd["A"] \in PlainRequests
  /\ rcv = [r \in Receivers |-> ReceiverOn("ws")]

SpecWsReceive == InitWsReceive /\ [][NextWsReceive]_vars

\* The cleanup lock left by the cleanup of an earlier transfer on the uid.
StaleLock == LockBy("earlier")

\* Store.cleanup called a second time once the first call has returned.
cleanup_step(r) ==
  \/ cleanup_started_nx(r)
  \/ cleanup_started_get(r)
  \/ cleanup_scan(r)
  \/ cleanup_delete(r)

\* Two calls of cleanup on one uid, the second after the first has
\* returned, and nothing else writing to the Store.  The 60 s of the
\* cleanup lock pass before, between or after the calls, not between the
\* two commands of cleanup_started.
NextCleanup ==
  \/ cleanup_step("X")
  \/ rcv["X"].pc = "done" /\ cleanup_step("Y")
  \/ (\A r \in Receivers : rcv[r].pc # "cl_get") /\ expire_cleanup_lock

\* The state of the Store when the transfer has ended and finalize_download
\* calls cleanup: the keys that are left, a lock that may be left from an
\* earlier transfer on the uid.
InitCleanup ==
  /\ meta \in {NoKey, MetadataJson("A", 1)}
  /\ queue \in {<<>>, <<DONE_FLAG>>, <<ChunkAt("plain", 0, 1)>>}
  /\ marker \in BOOLEAN
  /\ interrupt \in BOOLEAN
  /\ lock \in {NoLock, StaleLock}
  /\ receiver_connected = FALSE
  /\ subs = {}
  /\ inbox = {}
  /\ keyspace = {}
  /\ snd = [s \in Senders |-> [SenderInit("http", 1, "plain") EXCEPT !.pc = "done"]]
  /\ rcv = [r \in Receivers |->
              [ReceiverInit EXCEPT !.pc = "cl_setnx", !.size = 1, !.status = 200,
                                   !.ended = "cancelled"]]

SpecCleanup == InitCleanup /\ [][NextCleanup]_vars

\* A transfer on a uid that was used before: the keys outside
\* transfer:<uid>:* that the earlier transfer wrote, interrupt:<uid>
\* (ex=300) and cleanup:<uid> (ex=60), may still exist.
NextReuse ==
  \/ SenderStep("A")
  \/ ReceiverStep("X")
  \/ expire_metadata
  \/ expire_marker
  \/ expire_interrupt
  \/ (\A r \in Receivers : rcv[r].pc # "cl_get") /\ expire_cleanup_lock

InitReuse ==
  /\ meta = NoKey
  /\ queue = <<>>
  /\ marker = FALSE
  /\ interrupt \in BOOLEAN
  /\ lock \in {NoLock, StaleLock}
  /\ receiver_connected = FALSE
  /\ subs = {}
  /\ inbox = {}
  /\ keyspace = {}
  /\ snd \in [Senders -> PlainRequests]
  /\ snd["B"] = SenderInit("ws", 1, "plain")
  /\ rcv = [r \in Receivers |-> ReceiverInit]

SpecReuse == InitReuse /\ [][NextReuse]_vars

\* Transfers on several uids side by side.
NextKeys ==
  \E uid \in IngressUids :
    \/ ks_set_metadata(uid)
    \/ \E name \in KeyNames : ks_write(uid, name)
    \/ ks_cleanup(uid)

InitKeyspace == InitWith({})

SpecKeys == InitKeyspace /\ [][NextKeys]_vars

\* Uploads long enough to fill the queue, streamed in one-byte chunks.
LongRequests ==
  {[SenderInit(p, n, "plain") EXCEPT !.frame = 1] :
     p \in {"ws", "http"}, n \in {LongSize, LongSize + 1}}

\* One long upload and one receiver, which may stop reading at any point,
\* within the lifetime of the keys.
NextBackpressure ==
  \/ SenderStep("A")
  \/ ReceiverStep("X")

InitBackpressure ==
  /\ InitKeys
  /\ rcv = [r \in Receivers |-> ReceiverInit]
  /\ snd \in [Senders -> LongRequests \cup {SenderInit("ws", 1, "plain")}]
  /\ snd["A"] \in LongRequests
  /\ snd["B"] = SenderInit("ws", 1, "plain")

SpecBackpressure == InitBackpressure /\ [][NextBackpressure]_vars

\* Requests with a declared size above the limit of http_upload.
TooLargeRequests ==
  {SenderInit(p, HttpMaxSize + 1, "plain") : p \in {"ws", "http"}}

\* The head of every handler, up to the end of FileTransfer.create and
\* FileTransfer.get, on a valid and on an invalid transfer id, with
\* declared sizes on both sides of the HTTP limit.
NextIngress ==
  \/ \E s \in Senders :
       \/ http_upload_reject(s)
       \/ set_metadata_nx(s)
       \/ set_metadata_get(s)
       \/ set_metadata_set(s)
  \/ http_download_reject("X")
  \/ http_download_get("X")
  \/ ws_download_get("Y")

InitIngress ==
  /\ InitKeys
  /\ \E uid \in {GoodUid, BadUid} :
       /\ snd \in [Senders ->
                     {[q EXCEPT !.uid = uid] :
                        q \in PlainRequests \cup TooLargeRequests}]
       /\ rcv = [r \in Receivers |->
                   [ReceiverOn(IF r = "Y" THEN "ws" ELSE "http")
                      EXCEPT !.uid = uid]]

SpecIngress == InitIngress /\ [][NextIngress]_vars

----------------------------------------------------------------------------
(* Properties *)

Streaming(r) == rcv[r].pc = "dl_take"

\* set_event of the receiver has returned: marker written, notification sent.
EventSet(r) == rcv[r].status = 200

\* The sender streamed exactly file.size bytes, ended its stream, and
\* collect_upload returned without an error.
HonestUpload(s) ==
  /\ snd[s].pc = "done"
  /\ snd[s].eos \in {"empty", "end"}
  /\ snd[s].pos = snd[s].size
  /\ snd[s].up = snd[s].size
  /\ snd[s].err = "none"

\* The sender's stream ended before file.size bytes were collected.
ShortUpload(s) ==
  /\ snd[s].pc = "done"
  /\ snd[s].eos \in {"empty", "end"}
  /\ snd[s].up < snd[s].size

\* supply_download returned by itself: no disconnect, no timeout.
GeneratorReturned(r) == rcv[r].ended \in {"done", "less", "dead"}

\* C1: when neither side aborts, the bytes yielded by supply_download are
\* exactly the payload the sender streamed, and the stream ends after them.
C1_ContentIntegrity ==
  \A s \in Senders, r \in Receivers :
    (HonestUpload(s) /\ GeneratorReturned(r))
      => rcv[r].got = Payload(snd[s].pat, snd[s].size)

\* C2: wait_for_event never ends by timeout while set_event has completed
\* and its marker exists (late waiter included).
C2_LateWaiter ==
  [][\A s \in Senders :
       (snd[s].pc = "wait" /\ snd'[s].pc = "done")
         => ~(marker /\ \E r \in Receivers : EventSet(r))]_vars

\* C3: at most one HTTP receiver takes chunks from the queue of a uid.
C3_SingleReceiver ==
  Cardinality({r \in Receivers : Streaming(r)}) <= 1

\* FileTransfer.create has passed the challenge verification.
Created(s) == snd[s].pc \in {"sm_set", "wait"}

\* C4: a create passes only for the one sender whose challenge holds the
\* metadata key; of two concurrent creates exactly one succeeds and the
\* other is answered with the conflict reply.
C4_CreateConflict ==
  /\ Cardinality({s \in Senders : Created(s)}) <= 1
  /\ \A s \in Senders : Created(s) => meta.by = s
  /\ (\A s \in Senders : snd[s].pc \in {"wait", "done"})
       => Cardinality({s \in Senders : snd[s].pc = "wait"}) = 1
  /\ \A s \in Senders :
       snd[s].pc = "done" => snd[s].out = <<ConflictReply(s)>>

C4_Witness ==
  \E s, x \in Senders :
    /\ snd[s].pc = "wait"
    /\ snd[x].pc = "done"
    /\ snd[x].out = <<ErrorText("Transfer ID is already used.")>>

\* The sender holds the uid: its create succeeded and its upload handler
\* has not ended.
ActiveSender(s) ==
  snd[s].pc \in {"wait", "up_read", "up_check", "up_end", "put_llen",
                 "put_lpush", "put_ret"}

\* The sender is inside collect_upload.
Uploading(s) ==
  snd[s].pc \in {"up_read", "up_check", "up_end", "put_llen", "put_lpush",
                 "put_ret"}

\* C5: while a sender is uploading and no cleanup of the transfer has
\* returned, no other sender holds the uid.
C5_SingleSender ==
  (\A r \in Receivers : rcv[r].ret = -1)
    => \A s, x \in Senders :
         (s # x /\ Uploading(s)) => ~ActiveSender(x)

\* C6: after an upload that ended short, the receiver is told through
\* on_error and does not see a plain end of stream.
C6_TruncatedSurfaced ==
  \A s \in Senders, r \in Receivers :
    (ShortUpload(s) /\ rcv[r].ended \in {"dead", "less"})
      => rcv[r].err # "none"

\* C7: once every handler of the transfer has ended, no key without expiry
\* is left under transfer:<uid>:*.
C7_KeysReclaimed ==
  (/\ \E s \in Senders : snd[s].pc = "done"
   /\ \A s \in Senders : snd[s].pc \in {"start", "done"}
   /\ \A r \in Receivers : rcv[r].pc \in {"start", "done"})
    => queue = <<>>

C9_DeadSurfaced ==
  \A r \in Receivers :
    rcv[r].ended = "dead" => rcv[r].err = "Sender disconnected."

C11_UploadBounded ==
  /\ \A s \in Senders : snd[s].up <= snd[s].size
  /\ \A r \in Receivers : rcv[r].down <= rcv[r].size

\* C12: bytes_downloaded of the receiver never exceeds bytes_uploaded of the
\* sender, also between the push of a chunk and the increment that follows.
C12_DownloadedWithinUploaded ==
  \A r \in Receivers : rcv[r].down <= snd["A"].up

IsPrefix(a, b) == Len(a) <= Len(b) /\ a = SubSeq(b, 1, Len(a))

\* C14: with a single receiver, the entries get_from_queue has returned are
\* a prefix of the entries put_in_queue has pushed, sentinels included.
C14_Fifo ==
  \A r \in Receivers : IsPrefix(rcv[r].taken, snd["A"].pushed)

C14_Witness ==
  \E r \in Receivers :
    /\ Len(rcv[r].taken) >= 3
    /\ rcv[r].taken = snd["A"].pushed
    /\ rcv[r].ended = "done"

\* The sender has been released from wait_for_client_connected.
Released(s) ==
  snd[s].pc # "wait" /\ TaskGroupDone(snd[s].poll, snd[s].listen)

\* C15: the sender is released from wait_for_client_connected only after a
\* receiver's set_receiver_connected has succeeded.
C15_ClaimBeforeGo ==
  \A s \in Senders :
    Released(s) => \E r \in Receivers : rcv[r].claimed

\* C16: a receiver asks the queue for an entry only after its
\* set_client_connected has written the marker and published.
C16_EventBeforeTake ==
  \A r \in Receivers :
    (rcv[r].pc = "dl_take" \/ rcv[r].taken # <<>>)
      => rcv[r].event = "published"

C16_Witness ==
  /\ rcv["X"].taken # <<>>
  /\ rcv["Y"].taken # <<>>
  /\ rcv["Y"].claimed

\* C17: while the cleanup lock exists, at most one cleanup() passes the
\* challenge-and-verify and goes on to scan and delete; every other call
\* returns 0.
C17_SingleFlight ==
  /\ Cardinality({r \in Receivers : rcv[r].won}) <= 1
  /\ \A r \in Receivers :
       (rcv[r].pc \in {"cl_scan", "cl_del"} => rcv[r].won)
       /\ ((rcv[r].ret # -1 /\ ~rcv[r].won) => rcv[r].ret = 0)

C17_Witness ==
  \E r, x \in Receivers :
    /\ rcv[r].won /\ rcv[r].ret > 0
    /\ ~rcv[x].won /\ rcv[x].ret = 0

\* The GET of receiver r was answered with an HTML page.
HtmlServed(r) == rcv[r].ended \in {"preview", "page"}

\* C18: a GET answered with an HTML page changes no key, claims no receiver
\* slot, sets no event, takes nothing from the queue and ends without a
\* finalize or a cleanup.
C18_HtmlLeavesStore ==
  [][\A r \in Receivers :
       (~HtmlServed(r) /\ HtmlServed(r)')
         => /\ UNCHANGED storeVars
            /\ rcv'[r].pc = "done"
            /\ ~rcv'[r].claimed
            /\ rcv'[r].event = "none"
            /\ rcv'[r].taken = <<>>
            /\ rcv'[r].ret = -1]_vars

\* After an HTML reply another GET of the same uid downloads the payload.
C18_Witness ==
  \E r, x \in Receivers :
    /\ HtmlServed(r)
    /\ rcv[x].ended = "done"
    /\ rcv[x].got = Payload(snd["A"].pat, snd["A"].size)
    /\ marker

TooLarge(s) ==
  /\ snd[s].proto = "http"
  /\ snd[s].size > HttpMaxSize
  /\ ValidUid(snd[s].uid)

\* C20: an HTTP PUT that declares more than 1 GiB never holds the metadata
\* key and is answered 413 and nothing else.
C20_TooLargeRejected ==
  \A s \in Senders :
    TooLarge(s)
      => /\ meta.by # s
         /\ snd[s].pc \in {"start", "done"}
         /\ snd[s].pc = "done" =>
              snd[s].out = <<Http(413, "File too large. 1GiB maximum for HTTP.")>>

\* After the 413 another sender claims the uid.
C20_Witness ==
  \E s, x \in Senders :
    /\ TooLarge(s)
    /\ snd[s].pc = "done"
    /\ snd[x].pc = "wait"
    /\ meta = MetadataJson(x, snd[x].size)

\* The sender left the wait before both tasks of wait_for_event returned.
WaitTimedOut(s) ==
  /\ snd[s].pc = "wait"
  /\ snd'[s].pc # "wait"
  /\ ~TaskGroupDone(snd[s].poll, snd[s].listen)

\* C21: when the wait for the receiver times out, the sender handler ends
\* with HTTP 408 (HTTP) or with the text 'Error: Receiver did not connect in
\* time.' (WebSocket): nothing is pushed onto the queue and collect_upload
\* is never entered.
C21_TimeoutReply ==
  [][\A s \in Senders :
       WaitTimedOut(s) =>
         /\ snd'[s].pc = "done"
         /\ snd'[s].out = snd[s].out \o
              <<IF snd[s].proto = "http"
                THEN [t |-> "http", code |-> 408,
                      msg |-> "Client did not connect in time."]
                ELSE [t |-> "error_text", code |-> 0,
                      msg |-> "Receiver did not connect in time."]>>
         /\ snd'[s].pushed = <<>>
         /\ queue' = queue]_vars

\* A sender timed out while no receiver had announced itself.
C21_Witness ==
  \E s \in Senders :
    /\ snd[s].pc = "done"
    /\ Len(snd[s].out) > 0
    /\ snd[s].out[Len(snd[s].out)].msg
         \in {"Client did not connect in time.", "Receiver did not connect in time."}
    /\ snd[s].pushed = <<>>
    /\ queue = <<>>
    /\ ~marker

\* C22: the HTTP on_error callback tells the two states of a response
\* apart: called before the response has started, as it is throughout an
\* upload (PUT), it raises an HTTP exception and the client receives status
\* 408 or 400.
C22_UploadErrorStatus ==
  \A s \in Senders :
    (snd[s].proto = "http" /\ snd[s].pc = "done" /\ snd[s].err # "none")
      => /\ Len(snd[s].out) > 0
         /\ snd[s].out[Len(snd[s].out)].code \in {400, 408}

\* No create has been started on the uid.
NeverCreated == \A s \in Senders : snd[s].pc = "start"

\* A cleanup of the uid has run to its end and no create was started since:
\* the one sender that has left "start" created the transfer the cleanup
\* ended, and its handler has returned.
CleanedUp ==
  /\ \E r \in Receivers : rcv[r].won /\ rcv[r].pc = "done" /\ rcv[r].ret >= 0
  /\ \A s \in Senders : snd[s].pc \in {"start", "done"}
  /\ Cardinality({s \in Senders : snd[s].pc = "done"}) = 1

C24_NoChallengeObserved ==
  [][\A r \in Receivers :
       (rcv[r].pc = "start" /\ rcv'[r].pc # "start")
         => (meta.kind # "chal" /\ rcv'[r].status \notin {400, 500})]_vars

\* The entries sender s pushed as payload: a sentinel is its last push.
PayloadPushes(s) == Len(snd[s].pushed) - Len(snd[s].flags)

\* C25: a payload chunk is never taken for a sentinel, whatever its bytes,
\* the two-byte chunks 0x00 0xFF and 0xDE 0xAD included: the entry on
\* which supply_download ends was pushed as a sentinel.
C25_PayloadNeverSentinel ==
  \A r \in Receivers :
    GeneratorReturned(r) => Len(rcv[r].taken) > PayloadPushes("A")

\* C26: every key the Store writes carries an expiry: the metadata (the
\* challenge included), the queue list, the event markers,
\* receiver_connected, interrupt, completed and the cleanup lock.
C26_EveryKeyExpires == KeysWithoutExpiry = {}

\* Store.set_interrupted has returned in the handler of some receiver.
SetInterruptedDone ==
  /\ interrupt
  /\ \A r \in Receivers : rcv[r].pc \notin {"int_set", "int_ltrim"}

\* C27: set_interrupted sets the interrupted flag and truncates the queue
\* to at most one entry; a producer blocked in put because the queue held
\* 16 entries is thereby unblocked and returns from put without a timeout.
C27_InterruptUnblocks ==
  [][/\ \A r \in Receivers :
          (rcv[r].pc = "int_ltrim" /\ rcv'[r].pc # "int_ltrim")
            => (interrupt' /\ Len(queue') <= 1)
     /\ \A s \in Senders :
          (SetInterruptedDone /\ snd[s].pc = "put_llen" /\ snd'[s].pc # "put_llen")
            => snd'[s].pc = "put_lpush"]_vars

\* A sender pushed a 17th entry although the receiver took none: its put
\* found 16 entries, and went through after set_interrupted.
C27_Witness ==
  /\ SetInterruptedDone
  /\ \E s \in Senders :
       /\ Len(snd[s].pushed) = maxsize + 1
       /\ snd[s].pc \in {"put_ret", "up_read", "done"}
  /\ \A r \in Receivers : rcv[r].taken = <<>>

\* finalize_download has run to its end in the handler of r.
Finalized(r) ==
  /\ rcv[r].proto = "http"
  /\ rcv[r].pc = "done"
  /\ rcv[r].ended \in {"done", "less", "dead", "cancelled"}

\* C28: finalize_download sets the interrupted flag exactly when
\* bytes_downloaded < file.size and the flag is not yet set, never when
\* bytes_downloaded >= file.size, and in every case calls cleanup afterwards.
C28_FinalizeDownload ==
  /\ [][\A r \in Receivers :
          /\ (rcv[r].pc = "fin_check" /\ rcv'[r].pc # "fin_check")
               => rcv'[r].pc = IF rcv[r].down < rcv[r].size /\ ~interrupt
                               THEN "int_set" ELSE "cl_setnx"
          /\ (rcv[r].pc = "int_set" /\ rcv'[r].pc # "int_set")
               => (interrupt' /\ rcv[r].down < rcv[r].size)
          /\ (rcv[r].pc = "int_ltrim" /\ rcv'[r].pc # "int_ltrim")
               => rcv'[r].pc = "cl_setnx"]_vars
  /\ [][(~interrupt /\ interrupt')
          => \E r \in Receivers : rcv[r].pc = "int_set" /\ rcv[r].down < rcv[r].size]_vars
  /\ [](\A r \in Receivers : Finalized(r) => rcv[r].ret >= 0)

\* A download that ended short of file.size set the flag and was cleaned up.
C28_Witness ==
  \E r \in Receivers :
    /\ Finalized(r)
    /\ rcv[r].ret > 0
    /\ rcv[r].down < rcv[r].size
    /\ rcv[r].down > 0
    /\ interrupt

\* C29: no queue wait blocks for ever.  A sender whose push finds the queue
\* full with no consumer ends collect_upload by calling
\* on_error('Timeout during upload.'); a receiver whose take finds the queue
\* empty with no producer ends supply_download by calling on_error.
C29_QueueWaitsEndByOnError ==
  [][/\ \A s \in Senders :
          (snd[s].pc = "put_llen" /\ Len(queue) >= maxsize
             /\ snd'[s].pc # "put_llen")
            => (snd'[s].pc = "done" /\ snd'[s].err = "Timeout during upload.")
     /\ \A r \in Receivers :
          (rcv[r].pc = "dl_take" /\ queue = <<>> /\ rcv'[r].pc = "done")
            => rcv'[r].err = "Timeout waiting for data"]_vars

\* The sentinel that ends the upload of s.
EndFlag(s) == IF snd[s].up >= snd[s].size THEN <<0, 255>> ELSE <<222, 173>>

\* The client of s ended its stream with a zero-length chunk.
EmptyChunkSeen(s) == snd[s].eos = "empty"

\* C30: a zero-length chunk ends the collection: it is never pushed, no
\* later chunk is pushed, and the upload then ends with DONE if
\* bytes_uploaded >= file.size and with DEAD otherwise.
C30_EmptyChunkEnds ==
  \A s \in Senders :
    EmptyChunkSeen(s) =>
      /\ snd[s].pc \in {"up_end", "put_llen", "put_lpush", "put_ret", "done"}
      /\ \A i \in 1..Len(snd[s].pushed) : snd[s].pushed[i] # <<>>
      /\ snd[s].pc \in {"put_llen", "put_lpush", "put_ret"}
           => (snd[s].ckind # "chunk" /\ snd[s].cur = EndFlag(s))
      /\ snd[s].pc = "done" => snd[s].flags = <<EndFlag(s)>>

\* C30, amended: as C30, the sentinel being pushed through put_in_queue:
\* the upload ends without it when, and only when, that put finds the queue
\* full and times out.
C30_EmptyChunkEndsOrTimesOut ==
  /\ [](\A s \in Senders :
          EmptyChunkSeen(s) =>
            /\ snd[s].pc \in {"up_end", "put_llen", "put_lpush", "put_ret", "done"}
            /\ \A i \in 1..Len(snd[s].pushed) : snd[s].pushed[i] # <<>>
            /\ snd[s].pc \in {"put_llen", "put_lpush", "put_ret"}
                 => (snd[s].ckind # "chunk" /\ snd[s].cur = EndFlag(s))
            /\ snd[s].pc = "done" => snd[s].flags \in {<<>>, <<EndFlag(s)>>})
  /\ [][\A s \in Senders :
          (EmptyChunkSeen(s) /\ snd'[s].pc = "done" /\ snd'[s].flags = <<>>
             /\ snd[s].pc # "done")
            => (snd[s].pc = "put_llen" /\ Len(queue) >= maxsize)]_vars

\* An upload ended by a zero-length chunk short of file.size pushed DEAD
\* after its chunks.
C30_Witness ==
  \E s \in Senders :
    /\ EmptyChunkSeen(s)
    /\ snd[s].pc = "done"
    /\ snd[s].up > 0
    /\ snd[s].up < snd[s].size
    /\ snd[s].flags = <<<<222, 173>>>>
    /\ Len(snd[s].pushed) = snd[s].up + 1

C32_OneWsReceiver ==
  /\ [](/\ Cardinality({r \in Receivers : rcv[r].claimed}) <= 1
        /\ \A r \in Receivers :
             (rcv[r].proto = "ws"
                /\ (rcv[r].pc \in {"ev_set", "ev_pub", "dl_take"}
                      \/ rcv[r].taken # <<>>))
               => rcv[r].claimed)
  /\ [][\A r \in Receivers :
          (rcv[r].pc = "ws_set_rc" /\ rcv'[r].pc # "ws_set_rc")
            => IF receiver_connected
               THEN (rcv'[r].pc = "done" /\ rcv'[r].status = 409
                       /\ ~rcv'[r].claimed)
               ELSE (rcv'[r].pc = "ev_set" /\ rcv'[r].claimed)]_vars

\* One WebSocket receiver took a chunk, the other was refused.
C32_Witness ==
  \E r, q \in Receivers :
    /\ r # q
    /\ rcv[r].claimed /\ rcv[r].taken # <<>>
    /\ rcv[q].pc = "done" /\ rcv[q].status = 409 /\ rcv[q].taken = <<>>

\* C33: cleanup is idempotent: a second cleanup() on the same uid with no
\* Store write in between deletes nothing, returns 0 and leaves the keys of
\* the transfer and its flags exactly as the first call left them, whether
\* or not the cleanup lock has expired.
C33_CleanupIdempotent ==
  [][(rcv["X"].pc = "done" /\ rcv'["Y"] # rcv["Y"])
       => /\ UNCHANGED <<meta, queue, marker, receiver_connected, interrupt>>
          /\ rcv'["Y"].pc = "done" => rcv'["Y"].ret = 0]_vars

\* collect_upload has started in the handler of s.
InCollectUpload(s) ==
  snd[s].pc \in {"up_read", "up_check", "up_end", "put_llen", "put_lpush", "put_ret"}

\* C34: no entry is pushed onto the queue of a uid before a receiver has
\* set the client_connected event for that uid: on both upload endpoints
\* collect_upload starts only after wait_for_client_connected has returned
\* successfully.
C34_NoPushBeforeEvent ==
  \A s \in Senders :
    (InCollectUpload(s) \/ snd[s].pushed # <<>>)
      => \E r \in Receivers : rcv[r].event # "none"

\* A sender has pushed its first entry after a receiver published the event.
C34_Witness ==
  \E s \in Senders, r \in Receivers :
    /\ Len(snd[s].pushed) = 1
    /\ queue = snd[s].pushed
    /\ rcv[r].event = "published"
    /\ rcv[r].taken = <<>>

\* C35: one run of collect_upload pushes at most one sentinel (DONE or
\* DEAD, never both) and pushes nothing after it; DONE is pushed only if
\* bytes_uploaded >= file.size at that moment.
C35_OneSentinel ==
  \A s \in Senders :
    /\ Len(snd[s].flags) <= 1
    /\ snd[s].flags # <<>> =>
         /\ snd[s].pc \in {"put_ret", "done"}
         /\ snd[s].pushed[Len(snd[s].pushed)] = snd[s].flags[1]
         /\ snd[s].flags[1] \in {<<0, 255>>, <<222, 173>>}
         /\ snd[s].flags[1] = <<0, 255>> => snd[s].up >= snd[s].size

\* An upload that streamed more than file.size ended with DONE as its last
\* push.
C35_Witness ==
  \E s \in Senders :
    /\ snd[s].pc = "done"
    /\ snd[s].flags = <<<<0, 255>>>>
    /\ snd[s].up > snd[s].size
    /\ Len(snd[s].pushed) >= 2

\* Receiver r has got as far as the cleanup of finalize_download.
ReachedCleanup(r) ==
  \/ rcv[r].pc \in {"int_ltrim", "cl_setnx", "cl_get", "cl_scan", "cl_del"}
  \/ Finalized(r)

\* C36: a transfer created under a uid that was used before starts from a
\* clean state: a sender of the new transfer is not stopped with 'Transfer
\* was interrupted by the receiver.' unless a receiver of the new transfer
\* interrupted it.
C36_CleanStart ==
  \A s \in Senders :
    snd[s].err = "Transfer was interrupted by the receiver."
      => \E r \in Receivers : ReachedCleanup(r) /\ rcv[r].down < rcv[r].size

\* C37: every transfer whose finalize_download calls cleanup() with no
\* other cleanup of the same transfer in progress has its transfer:<uid>:*
\* keys deleted by that call: a cleanup:<uid> lock left by an earlier
\* transfer under the same uid does not turn the later cleanup into a no-op.
C37_CleanupNotSkipped ==
  Finalized("X") => (rcv["X"].won /\ TransferKeys \cap {"metadata", "client_connected:marker"} = {})

\* C38: every queue entry is returned by get_from_queue to at most one
\* caller, also when several receivers take from the same uid concurrently:
\* the entries taken and the entries still queued are together no more than
\* the entries pushed, and every take removes the entry it returns.
C38_NoEntryTwice ==
  /\ [](Len(rcv["X"].taken) + Len(rcv["Y"].taken) + Len(queue)
          <= Len(snd["A"].pushed) + Len(snd["B"].pushed))
  /\ [][\A r \in Receivers :
          Len(rcv'[r].taken) > Len(rcv[r].taken)
            => /\ Len(queue') = Len(queue) - 1
               /\ rcv'[r].taken = Append(rcv[r].taken, queue[Len(queue)])
               /\ \A q \in Receivers \ {r} : rcv'[q].taken = rcv[q].taken]_vars

\* Two receivers took between them exactly the entries one sender pushed.
C38_Witness ==
  /\ rcv["X"].taken # <<>>
  /\ rcv["Y"].taken # <<>>
  /\ Len(rcv["X"].taken) + Len(rcv["Y"].taken) = Len(snd["A"].pushed)

\* C39: transfers with distinct uids are isolated: two distinct uids
\* accepted at an ingress never map to the same Store keys, and no operation
\* of one transfer (here the pattern scan and delete of cleanup) deletes a
\* key of another.
C39_UidsIsolated ==
  /\ [](\A e \in keyspace, uid \in IngressUids, name \in KeyNames :
          uid # e.owner => key(_format_uid(uid), name) # e.key)
  /\ [][\A d, e \in keyspace \ keyspace' : d.owner = e.owner]_vars

\* C40: set_event writes the marker key before it publishes the
\* notification, so whenever a subscriber receives the notification of an
\* event the marker of that event already exists (until its TTL expires).
C40_MarkerBeforeNotification ==
  [][\A s \in Senders :
       (s \in inbox' /\ s \notin inbox)
         => /\ marker
            /\ \E r \in Receivers :
                 rcv[r].pc = "ev_pub" /\ rcv'[r].pc # "ev_pub"]_vars

\* C13: the queue never holds more than 16 entries.
C13_QueueBounded == Len(queue) <= maxsize

====
